---- MODULE Spec2Model ----
(***************************************************************************)
(* Fan-out relay of apiserver.py: the module-level registry sse_clients,   *)
(* the per-client asyncio queues, the upstream listener task, the command  *)
(* handler and the application lifespan, as tasks of one cooperative       *)
(* event loop.  A task runs from one suspension point to the next without  *)
(* interruption; the model shows the steps inside a fan-out loop but lets  *)
(* no other task move while a fan-out is running, because q.put on an      *)
(* unbounded asyncio.Queue returns without suspending.                     *)
(***************************************************************************)
EXTENDS Naturals, Sequences, FiniteSets

\* ---- bounds of the model ------------------------------------------------
MaxSessions == 2
MaxBroadcasts == 3
MaxLiveBroadcasts == 2
MaxHandles == 4

\* ---- inputs -------------------------------------------------------------
Sessions == 1..MaxSessions
UpstreamData == {"A", "B"}
Tokens == {"pp", "xyz"}
Producers == {"listener", "cmd"}
Handles == 1..MaxHandles

\* the events pubsub.listen() produces: the subscribe confirmation, whose
\* data is the subscription count, and then published messages
SubscribeEvent == [type |-> "subscribe", data |-> "1"]
MessageEvents == {[type |-> "message", data |-> d] : d \in UpstreamData}

\* ---- faulty variants of the definitions below -----------------------------
\* a serializer with compact separators
JsonDumpsCompact(payload) ==
  "{\"type\":\"" \o payload.type \o "\",\"command\":\"" \o payload.command \o "\"}"

\* a bounded queue would make put() wait, and let other tasks in
PutSuspendsBounded == TRUE

\* iterating the registry while skipping its first entry
SnapshotSkipsFirst(clients) == IF clients = << >> THEN << >> ELSE Tail(clients)

\* a queue object reused from an earlier connection, still holding an item
NewQueueStale == <<"A">>

\* a vocabulary check that lets every token through
valid_commandsOpen == {"pp", "fwd", "rew", "out", "xyz"}

\* a queue made with a maxsize is full once it holds that many items
QueueFullBounded(q) == Len(q) >= 1

\* ---- program constants --------------------------------------------------
valid_commands == {"pp", "fwd", "rew", "out"}

WebcontrolPayload(command) == [type |-> "webcontrol", command |-> command]

\* json.dumps of a {"type": ..., "command": ...} dict: keys in insertion
\* order, ", " between items and ": " after a key
JsonDumps(payload) ==
  "{\"type\": \"" \o payload.type \o "\", \"command\": \"" \o payload.command \o "\"}"

\* asyncio.Queue() has maxsize 0, so full() is never true and put() reaches
\* put_nowait without awaiting
PutSuspends == FALSE

\* Queue.full(): with maxsize 0 a queue is never full, however much its
\* consumer has left in it, so put() never waits for a get()
QueueFull(q) == FALSE

\* list(sse_clients): a copy of the registry, in registration order
Snapshot(clients) == clients

\* asyncio.Queue(): a new queue holds nothing
NewQueue == << >>

NoBroadcast == [id |-> 0, msg |-> "", snap |-> << >>, i |-> 0]
NoResponse == [status_code |-> 0, content |-> "", command |-> "", id |-> 0]

VARIABLES
  sse_clients,   \* the registry list
  sess,          \* per session: position of stream_events / event_generator
  connected,     \* per session: what the transport's liveness probe would say
  queue,         \* per session: contents of its asyncio.Queue
  yielded,       \* per session: payloads handed to the transport
  late,          \* per session: how many of them were handed over after the
                 \* transport had disconnected
  fault,         \* the exception that escaped a deregistration, or "none"
  pushed,        \* history: every put on the session's queue, with its fan-out id
  inflight,      \* per producer: the fan-out loop it is inside, or NoBroadcast
  blog,          \* history: one record per fan-out started (its source, what
                 \* the producer was given, the message put, the registry
                 \* when it started and when it ended, whether it finished)
  response,      \* the last response send_webcontrol_command returned, with
                 \* the command it answers and the id of its fan-out
  relay,         \* position of the redis_listener task
  subscription,  \* state of the pubsub subscription resource
  lifespan,      \* position of the lifespan context manager
  budget         \* the number of fan-outs the run may start (fixed at the start)

vars == <<sse_clients, sess, connected, queue, yielded, late, fault, pushed,
          inflight, blog,
          response, relay, subscription, lifespan, budget>>

sessVars == <<sess, connected, yielded, late, fault>>
relayVars == <<relay, subscription, lifespan, budget>>
cmdVars == <<response>>
fanVars == <<inflight, blog>>

\* ---- helpers ------------------------------------------------------------
SeqToSet(s) == {s[k] : k \in 1..Len(s)}

\* list.remove(x): drops the first occurrence
RECURSIVE Remove(_, _)
Remove(s, x) ==
  IF s = << >> THEN << >>
  ELSE IF Head(s) = x THEN Tail(s)
  ELSE <<Head(s)>> \o Remove(Tail(s), x)

\* the event loop runs one task at a time: task t may take a step only when
\* no other producer is in the middle of its fan-out loop
CanRun(t) ==
  PutSuspends \/ \A p \in Producers \ {t} : inflight[p] = NoBroadcast

Init ==
  /\ sse_clients = << >>
  /\ sess = [c \in Sessions |-> "none"]
  /\ connected = [c \in Sessions |-> FALSE]
  /\ queue = [c \in Sessions |-> << >>]
  /\ yielded = [c \in Sessions |-> << >>]
  /\ late = [c \in Sessions |-> 0]
  /\ fault = "none"
  /\ pushed = [c \in Sessions |-> << >>]
  /\ inflight = [p \in Producers |-> NoBroadcast]
  /\ blog = << >>
  /\ response = NoResponse
  /\ relay = "STOPPED"
  /\ subscription = "none"
  /\ lifespan = "init"
  /\ budget = MaxBroadcasts

\* ---- fan-out ------------------------------------------------------------
\* entering `for q in list(sse_clients)` with serialized message msg
StartFanout(p, src, raw, msg) ==
  /\ inflight' = [inflight EXCEPT ![p] =
       [id |-> Len(blog) + 1, msg |-> msg, snap |-> Snapshot(sse_clients), i |-> 1]]
  /\ blog' = Append(blog, [src |-> src, raw |-> raw, msg |-> msg,
                           reg |-> sse_clients, regEnd |-> << >>,
                           done |-> FALSE])

\* one iteration of the loop: await q.put(msg)
PutStep(p) ==
  /\ inflight[p] # NoBroadcast
  /\ inflight[p].i <= Len(inflight[p].snap)
  /\ CanRun(p)
  /\ ~QueueFull(queue[inflight[p].snap[inflight[p].i]])
  /\ LET b == inflight[p]
         q == b.snap[b.i]
     IN /\ queue' = [queue EXCEPT ![q] = Append(@, b.msg)]
        /\ pushed' = [pushed EXCEPT ![q] = Append(@, [id |-> b.id, data |-> b.msg])]
        /\ inflight' = [inflight EXCEPT ![p].i = @ + 1]
  /\ UNCHANGED blog

\* the loop is exhausted
EndFanout(p) ==
  /\ inflight[p] # NoBroadcast
  /\ inflight[p].i > Len(inflight[p].snap)
  /\ CanRun(p)
  /\ blog' = [blog EXCEPT ![inflight[p].id].done = TRUE,
                          ![inflight[p].id].regEnd = sse_clients]
  /\ inflight' = [inflight EXCEPT ![p] = NoBroadcast]
  /\ UNCHANGED <<queue, pushed>>

\* ---- CommandIngress: PUT /webcontrol/{command} ---------------------------
\* a handler that serves commands only while the listener is listening
send_webcontrol_commandListening(command) ==
  /\ relay = "LISTENING"
  /\ lifespan = "running"
  /\ inflight["cmd"] = NoBroadcast
  /\ CanRun("cmd")
  /\ IF command \notin valid_commands
     THEN /\ response' = [status_code |-> 400, content |-> "Invalid command",
                          command |-> command, id |-> 0]
          /\ UNCHANGED <<inflight, blog>>
     ELSE /\ Len(blog) < budget
          /\ StartFanout("cmd", command, command,
                         JsonDumps(WebcontrolPayload(command)))
          /\ UNCHANGED response
  /\ UNCHANGED <<sse_clients, queue, pushed, sessVars, relayVars>>

send_webcontrol_command(command) ==
  /\ lifespan = "running"
  /\ inflight["cmd"] = NoBroadcast
  /\ CanRun("cmd")
  /\ IF command \notin valid_commands
     THEN /\ response' = [status_code |-> 400, content |-> "Invalid command",
                          command |-> command, id |-> 0]
          /\ UNCHANGED <<inflight, blog>>
     ELSE /\ Len(blog) < budget
          /\ StartFanout("cmd", command, command,
                         JsonDumps(WebcontrolPayload(command)))
          /\ UNCHANGED response
  /\ UNCHANGED <<sse_clients, queue, pushed, sessVars, relayVars>>

\* broadcast(payload): one pass of its loop
broadcast ==
  /\ PutStep("cmd")
  /\ UNCHANGED <<sse_clients, sessVars, relayVars, cmdVars>>

\* broadcast has returned: the handler answers 202
CommandReturn ==
  /\ EndFanout("cmd")
  /\ response' = [status_code |-> 202, content |-> "Command queued",
                  command |-> blog[inflight["cmd"].id].src,
                  id |-> inflight["cmd"].id]
  /\ UNCHANGED <<sse_clients, sessVars, relayVars>>

\* ---- UpstreamRelay: the redis_listener task ------------------------------
\* pubsub.subscribe(UPDATE_CHANNEL) returns or raises
RelaySubscribe ==
  /\ relay = "SUBSCRIBING"
  /\ CanRun("listener")
  /\ \/ /\ relay' = "LISTENING"
        /\ subscription' = "unconfirmed"
     \/ /\ relay' = "FAILED"
        /\ UNCHANGED subscription
  /\ UNCHANGED <<sse_clients, queue, pushed, sessVars, cmdVars, fanVars,
                 lifespan, budget>>

\* what the stream can produce next: the confirmation comes first
NextEvents ==
  IF subscription = "unconfirmed" THEN {SubscribeEvent} ELSE MessageEvents

\* a listener that relays every event of the stream
RelayedAll(message) == TRUE

\* Relayed(message): the test of line 115
Relayed(message) == message["type"] = "message"

\* a listener that serializes the data again before putting it
ForwardedQuoted(message) == "\"" \o message["data"] \o "\""

\* data = message["data"]: what the listener puts on the queues
Forwarded(message) == message["data"]

\* one turn of `async for message in pubsub.listen()`
RelayReceive(message) ==
  /\ relay = "LISTENING"
  /\ inflight["listener"] = NoBroadcast
  /\ CanRun("listener")
  /\ message \in NextEvents
  /\ subscription' = "confirmed"
  /\ IF Relayed(message)
     THEN /\ Len(blog) < budget
          /\ StartFanout("listener", "upstream", message["data"],
                         Forwarded(message))
     ELSE UNCHANGED <<inflight, blog>>
  /\ UNCHANGED <<sse_clients, queue, pushed, sessVars, cmdVars, relay, lifespan, budget>>

\* the listener's own fan-out loop (lines 118-119)
RelayPut ==
  /\ PutStep("listener")
  /\ UNCHANGED <<sse_clients, sessVars, relayVars, cmdVars>>

RelayPutDone ==
  /\ EndFanout("listener")
  /\ UNCHANGED <<sse_clients, sessVars, relayVars, cmdVars>>

\* the message stream raises a transport error: nothing in redis_listener
\* catches it, so the task is done with that exception
RelayStreamError ==
  /\ relay = "LISTENING"
  /\ inflight["listener"] = NoBroadcast
  /\ CanRun("listener")
  /\ relay' = "FAILED"
  /\ UNCHANGED <<sse_clients, queue, pushed, sessVars, cmdVars, fanVars,
                 subscription, lifespan, budget>>

\* ---- lifespan ------------------------------------------------------------
\* startup: asyncio.create_task(redis_listener())
LifespanStartup ==
  /\ lifespan = "init"
  /\ lifespan' = "running"
  /\ relay' = "SUBSCRIBING"
  /\ UNCHANGED <<sse_clients, queue, pushed, sessVars, cmdVars, fanVars,
                 subscription, budget>>

\* task.cancel(): nothing happens to a task that is done; into a task that is
\* suspended (in subscribe or in the stream's read) CancelledError is thrown
\* before it can take another step, and with no try/finally in
\* redis_listener the task just ends, cancelled
Cancel(task) ==
  IF task \in {"SUBSCRIBING", "LISTENING"} THEN "CANCELLED" ELSE task

\* after the yield: task.cancel(), then the lifespan suspends in `await task`
LifespanShutdown ==
  /\ lifespan = "running"
  /\ \A p \in Producers : inflight[p] = NoBroadcast
  /\ lifespan' = "stopping"
  /\ relay' = Cancel(relay)
  /\ UNCHANGED <<sse_clients, queue, pushed, sessVars, cmdVars, fanVars,
                 subscription, budget>>

\* `await task` inside try/except asyncio.CancelledError
LifespanAwait ==
  /\ lifespan = "stopping"
  /\ relay \in {"CANCELLED", "FAILED"}
  /\ lifespan' = IF relay = "CANCELLED" THEN "exited" ELSE "raised"
  /\ UNCHANGED <<sse_clients, queue, pushed, sessVars, cmdVars, fanVars,
                 relay, subscription, budget>>

\* ---- ClientSession: GET /events ------------------------------------------
\* requests are served from startup until the lifespan has exited
Serving == lifespan \in {"running", "stopping"}

\* positions of a session: "created" (registered, generator not started),
\* "probe" (suspended at the yield or in is_disconnected, the probe is what
\* it evaluates next), "waiting" (suspended in queue.get on an empty queue),
\* "done" (finally has run), "dropped" (discarded without ever starting)
Live == {"created", "probe", "waiting"}
Started == {"probe", "waiting"}

\* the handler body: a queue is made and registered, the generator object is
\* made but not started
stream_events(c) ==
  /\ lifespan = "running"
  /\ sess[c] = "none"
  /\ \A d \in Sessions : d < c => sess[d] # "none"
  /\ \A p \in Producers : CanRun(p)
  /\ sess' = [sess EXCEPT ![c] = "created"]
  /\ connected' = [connected EXCEPT ![c] = TRUE]
  /\ queue' = [queue EXCEPT ![c] = NewQueue]
  /\ sse_clients' = Append(sse_clients, c)
  /\ UNCHANGED <<yielded, late, fault, pushed, cmdVars, fanVars, relayVars>>

\* sse_clients.remove(q): list.remove raises ValueError when q is not in
\* the list, and then leaves the list as it is
RemoveRaises(clients, q) == q \notin SeqToSet(clients)

Deregister(q) ==
  /\ sse_clients' = IF RemoveRaises(sse_clients, q) THEN sse_clients
                    ELSE Remove(sse_clients, q)
  /\ fault' = IF RemoveRaises(sse_clients, q) THEN "ValueError" ELSE fault

\* the `finally:` of event_generator
Finally(c) ==
  /\ Deregister(c)
  /\ sess' = [sess EXCEPT ![c] = "done"]

\* msg = await queue.get(); yield {"event": "update", "data": msg}
\* a generator that hands over the newest payload instead of the oldest
GetAndYieldLast(c) ==
  /\ queue' = [queue EXCEPT ![c] = SubSeq(@, 1, Len(@) - 1)]
  /\ yielded' = [yielded EXCEPT ![c] = Append(@, queue[c][Len(queue[c])])]
  /\ late' = [late EXCEPT ![c] = IF connected[c] THEN @ ELSE @ + 1]
  /\ sess' = [sess EXCEPT ![c] = "probe"]
  /\ UNCHANGED <<sse_clients, fault>>

GetAndYield(c) ==
  /\ queue' = [queue EXCEPT ![c] = Tail(@)]
  /\ yielded' = [yielded EXCEPT ![c] = Append(@, Head(queue[c]))]
  /\ late' = [late EXCEPT ![c] = IF connected[c] THEN @ ELSE @ + 1]
  /\ sess' = [sess EXCEPT ![c] = "probe"]
  /\ UNCHANGED <<sse_clients, fault>>

\* the transport asks the generator for its first item: the body starts
Pull(c) ==
  /\ Serving
  /\ sess[c] = "created"
  /\ \A p \in Producers : CanRun(p)
  /\ sess' = [sess EXCEPT ![c] = "probe"]
  /\ UNCHANGED <<sse_clients, queue, pushed, connected, yielded, late, fault,
                 cmdVars, fanVars, relayVars>>

\* a generator that waits on its queue without asking the transport first
ProbeBlind(c) ==
  /\ Serving
  /\ sess[c] = "probe"
  /\ \A p \in Producers : CanRun(p)
  /\ IF queue[c] = << >>
     THEN /\ sess' = [sess EXCEPT ![c] = "waiting"]
          /\ UNCHANGED <<sse_clients, queue, yielded, late, fault>>
     ELSE GetAndYield(c)
  /\ UNCHANGED <<pushed, connected, cmdVars, fanVars, relayVars>>

\* request.is_disconnected() answers; then either break or queue.get()
Probe(c) ==
  /\ Serving
  /\ sess[c] = "probe"
  /\ \A p \in Producers : CanRun(p)
  /\ IF ~connected[c]
     THEN Finally(c) /\ UNCHANGED <<queue, yielded, late>>
     ELSE IF queue[c] = << >>
          THEN /\ sess' = [sess EXCEPT ![c] = "waiting"]
               /\ UNCHANGED <<sse_clients, queue, yielded, late, fault>>
          ELSE GetAndYield(c)
  /\ UNCHANGED <<pushed, connected, cmdVars, fanVars, relayVars>>

\* a put has woken the suspended queue.get()
Wake(c) ==
  /\ Serving
  /\ sess[c] = "waiting"
  /\ queue[c] # << >>
  /\ \A p \in Producers : CanRun(p)
  /\ GetAndYield(c)
  /\ UNCHANGED <<pushed, connected, cmdVars, fanVars, relayVars>>

\* the transport ends the stream by throwing into the started generator
\* where it is suspended (cancellation of its task, or aclose): the finally
\* block runs
Close(c) ==
  /\ Serving
  /\ sess[c] \in Started
  /\ \A p \in Producers : CanRun(p)
  /\ Finally(c)
  /\ connected' = [connected EXCEPT ![c] = FALSE]
  /\ UNCHANGED <<queue, pushed, yielded, late, cmdVars, fanVars, relayVars>>

\* the response is dropped before the generator was ever pulled: a generator
\* that never started has not entered its try, so no finally runs
Abandon(c) ==
  /\ Serving
  /\ sess[c] = "created"
  /\ \A p \in Producers : CanRun(p)
  /\ sess' = [sess EXCEPT ![c] = "dropped"]
  /\ connected' = [connected EXCEPT ![c] = FALSE]
  /\ UNCHANGED <<sse_clients, queue, pushed, yielded, late, fault, cmdVars,
                 fanVars, relayVars>>

\* the client goes away
Disconnect(c) ==
  /\ Serving
  /\ sess[c] \in Live
  /\ connected[c]
  /\ \A p \in Producers : CanRun(p)
  /\ connected' = [connected EXCEPT ![c] = FALSE]
  /\ UNCHANGED <<sse_clients, queue, pushed, sess, yielded, late, fault,
                 cmdVars, fanVars, relayVars>>

\* ---- specification -------------------------------------------------------
Next ==
  \/ \E command \in Tokens : send_webcontrol_command(command)
  \/ broadcast
  \/ CommandReturn
  \/ RelaySubscribe
  \/ \E message \in MessageEvents \cup {SubscribeEvent} : RelayReceive(message)
  \/ RelayPut
  \/ RelayPutDone
  \/ RelayStreamError
  \/ LifespanStartup
  \/ LifespanShutdown
  \/ LifespanAwait
  \/ \E c \in Sessions : stream_events(c)
  \/ \E c \in Sessions : Pull(c)
  \/ \E c \in Sessions : Probe(c)
  \/ \E c \in Sessions : Wake(c)
  \/ \E c \in Sessions : Close(c)
  \/ \E c \in Sessions : Abandon(c)
  \/ \E c \in Sessions : Disconnect(c)

Spec == Init /\ [][Next]_vars

TypeOK ==
  /\ SeqToSet(sse_clients) \subseteq Sessions
  /\ \A c \in Sessions : sess[c] \in {"none", "done", "dropped"} \cup Live
  /\ relay \in {"STOPPED", "SUBSCRIBING", "LISTENING", "FAILED", "CANCELLED"}
  /\ subscription \in {"none", "unconfirmed", "confirmed", "closed"}
  /\ lifespan \in {"init", "running", "stopping", "exited", "raised"}
  /\ Len(blog) <= budget

\* the fairness the event loop gives: a task that is ready to run is run.
\* Nothing obliges the environment to publish, submit, connect, disconnect,
\* end a stream or shut down.
Fairness ==
  /\ WF_vars(broadcast) /\ WF_vars(CommandReturn)
  /\ WF_vars(RelaySubscribe) /\ WF_vars(RelayPut) /\ WF_vars(RelayPutDone)
  /\ WF_vars(LifespanAwait)
  /\ \A c \in Sessions : WF_vars(Pull(c)) /\ WF_vars(Probe(c)) /\ WF_vars(Wake(c))

FairSpec == Spec /\ Fairness

\* the same program with fewer fan-outs, for the properties of progress
InitLive ==
  /\ sse_clients = << >>
  /\ sess = [c \in Sessions |-> "none"]
  /\ connected = [c \in Sessions |-> FALSE]
  /\ queue = [c \in Sessions |-> << >>]
  /\ yielded = [c \in Sessions |-> << >>]
  /\ late = [c \in Sessions |-> 0]
  /\ fault = "none"
  /\ pushed = [c \in Sessions |-> << >>]
  /\ inflight = [p \in Producers |-> NoBroadcast]
  /\ blog = << >>
  /\ response = NoResponse
  /\ relay = "STOPPED"
  /\ subscription = "none"
  /\ lifespan = "init"
  /\ budget = MaxLiveBroadcasts

LiveSpec == InitLive /\ [][Next]_vars /\ Fairness

\* ---- deregistration on its own -------------------------------------------
\* every registry of distinct handles
RECURSIVE Registries(_)
Registries(n) ==
  IF n = 0 THEN {<< >>}
  ELSE Registries(n - 1) \cup
       {Append(r, h) : r \in {x \in Registries(n - 1) : Len(x) = n - 1},
                       h \in Handles}

DistinctRegistries ==
  {r \in Registries(MaxHandles) : Cardinality(SeqToSet(r)) = Len(r)}

InitRegistry ==
  /\ sse_clients \in DistinctRegistries
  /\ sess = [c \in Sessions |-> "none"]
  /\ connected = [c \in Sessions |-> FALSE]
  /\ queue = [c \in Sessions |-> << >>]
  /\ yielded = [c \in Sessions |-> << >>]
  /\ late = [c \in Sessions |-> 0]
  /\ fault = "none"
  /\ pushed = [c \in Sessions |-> << >>]
  /\ inflight = [p \in Producers |-> NoBroadcast]
  /\ blog = << >>
  /\ response = NoResponse
  /\ relay = "STOPPED"
  /\ subscription = "none"
  /\ lifespan = "init"
  /\ budget = 0

\* sse_clients.remove(q) applied to any handle, registered or not
DeregisterHandle(q) ==
  /\ Deregister(q)
  /\ UNCHANGED <<sess, connected, queue, yielded, late, pushed, inflight, blog,
                 response, relay, subscription, lifespan, budget>>

NextRegistry == \E q \in Handles : DeregisterHandle(q)

RegistrySpec == InitRegistry /\ [][NextRegistry]_vars

\* ---- properties ----------------------------------------------------------
Registered(c) == c \in SeqToSet(sse_clients)
Count(s, b) == Cardinality({k \in 1..Len(s) : s[k].id = b})
Data(s) == [k \in 1..Len(s) |-> s[k].data]
Vocabulary == {"pp", "fwd", "rew", "out"}
ControlWire(t) == "{\"type\": \"control\", \"command\": \"" \o t \o "\"}"
WebcontrolWire(t) == "{\"type\": \"webcontrol\", \"command\": \"" \o t \o "\"}"

\* C1: a fan-out that has run to completion has put its payload exactly once
\* on each of the N queues that were registered when it started, so exactly N
\* queues hold it.
C1_ExactlyOncePerRegistered ==
  \A b \in 1..Len(blog) :
    blog[b].done =>
      /\ \A c \in SeqToSet(blog[b].reg) : Count(pushed[c], b) = 1
      /\ Cardinality({c \in Sessions : Count(pushed[c], b) >= 1}) = Len(blog[b].reg)

C1_Witness ==
  \E b \in 1..Len(blog) : blog[b].done /\ Len(blog[b].reg) = 2

\* C2: a queue is in the registry exactly while its session is live: no
\* entry for a terminated session, no live session without its entry.
C2_RegisteredExactlyWhileLive ==
  \A c \in Sessions : Registered(c) <=> sess[c] \in Live

\* C3: every queue holds the payloads in the order in which their fan-outs
\* were started (fan-out ids grow along each queue's history), and after
\* upstream A, command pp, upstream B every queue registered throughout holds
\* A, pp, B in that order.
ScenarioAppB ==
  /\ Len(blog) >= 3
  /\ blog[1].src = "upstream" /\ blog[1].msg = "A"
  /\ blog[2].src = "pp"
  /\ blog[3].src = "upstream" /\ blog[3].msg = "B"
  /\ \A b \in 1..3 : blog[b].done

C3_SameOrderEverywhere ==
  /\ \A c \in Sessions : \A j, k \in 1..Len(pushed[c]) :
       j < k => pushed[c][j].id < pushed[c][k].id
  /\ ScenarioAppB =>
       \A c \in SeqToSet(blog[1].reg) \cap SeqToSet(blog[3].reg) :
         Data(SelectSeq(pushed[c], LAMBDA e : e.id <= 3)) = <<"A", blog[2].msg, "B">>

C3_Witness ==
  /\ ScenarioAppB
  /\ Cardinality(SeqToSet(blog[1].reg) \cap SeqToSet(blog[3].reg)) = 2

\* C4: in an application that keeps running, a started session whose
\* transport has disconnected eventually runs its cleanup and leaves the
\* registry, also when nothing more is broadcast.
C4_DisconnectLeadsToDeregistration ==
  \A c \in Sessions :
    (sess[c] \in Started /\ ~connected[c])
      ~> ((sess[c] = "done" /\ ~Registered(c)) \/ lifespan # "running")

\* C5 (as stated): an accepted command puts the serialized payload
\* {type: "control", command: token} on every queue registered when it was
\* submitted.
C5_AcceptedDeliversControl ==
  response.status_code = 202 =>
    \A c \in SeqToSet(blog[response.id].reg) :
      \E k \in 1..Len(pushed[c]) :
        pushed[c][k] = [id |-> response.id, data |-> ControlWire(response.command)]

\* C5 (amended): a token of the vocabulary is never rejected; its handler
\* answers 202 "Command queued" after the one string
\* {"type": "webcontrol", "command": "<token>"} has been put on every queue
\* that was registered when the command was submitted.
C5_AcceptedDeliversWebcontrol ==
  /\ response.status_code = 400 => response.command \notin Vocabulary
  /\ response.status_code = 202 =>
       /\ response.content = "Command queued"
       /\ response.command \in Vocabulary
       /\ blog[response.id].src = response.command
       /\ \A c \in SeqToSet(blog[response.id].reg) :
            \E k \in 1..Len(pushed[c]) :
              pushed[c][k] =
                [id |-> response.id, data |-> WebcontrolWire(response.command)]

C5_Witness ==
  response.status_code = 202 /\ Len(blog[response.id].reg) = 2

\* C6: handling a token outside the vocabulary answers 400 "Invalid command"
\* and starts no fan-out, leaves the registry and every queue as they were.
C6_RejectedHasNoEffect ==
  [][\A t \in Tokens \ Vocabulary :
       send_webcontrol_command(t) =>
         /\ response'.status_code = 400
         /\ response'.content = "Invalid command"
         /\ UNCHANGED <<sse_clients, queue, pushed, inflight, blog>>]_vars

C6_Witness ==
  /\ response.status_code = 400
  /\ \E c \in Sessions : Registered(c) /\ queue[c] # << >>

\* C7: no replay: a fan-out started on an empty registry reaches no queue;
\* a queue starts empty, holds only what was put on it, and was only ever put
\* on by fan-outs that started while it was registered.
C7_NoReplay ==
  /\ \A b \in 1..Len(blog) :
       blog[b].reg = << >> => \A c \in Sessions : Count(pushed[c], b) = 0
  /\ \A c \in Sessions :
       /\ sess[c] = "none" => queue[c] = << >> /\ pushed[c] = << >>
       /\ Len(queue[c]) <= Len(pushed[c])
       /\ queue[c] = SubSeq(Data(pushed[c]),
                            Len(pushed[c]) - Len(queue[c]) + 1, Len(pushed[c]))
       /\ \A k \in 1..Len(pushed[c]) : c \in SeqToSet(blog[pushed[c][k].id].reg)

C7_Witness ==
  \E a, b \in 1..Len(blog) : \E c \in Sessions :
    /\ a < b
    /\ blog[a].done /\ blog[a].reg = << >>
    /\ blog[b].done /\ Count(pushed[c], b) = 1

\* C8: while the application is running the listener is subscribing or
\* listening: a failure of the subscription sends it back to SUBSCRIBING
\* instead of ending it.
C8_FailureLeadsToResubscription ==
  lifespan = "running" => relay \in {"SUBSCRIBING", "LISTENING"}

\* C9: once the cancelled listener has finished unwinding, the subscription
\* it opened is no longer open.
C9_CancelledLeavesNoSubscription ==
  relay = "CANCELLED" => subscription \notin {"unconfirmed", "confirmed"}

\* C10: no failure of the listener leaves the lifespan as an unhandled
\* exception, neither while running nor at the await of shutdown.
C10_NothingEscapesLifespan ==
  lifespan # "raised"

\* C11: once shutdown has completed without an escaping exception, the
\* listener has been cancelled and every client queue has been deregistered.
C11_ShutdownEmptiesRegistry ==
  lifespan = "exited" => sse_clients = << >>

\* C12: a fan-out never waits for a consumer: whatever the queues hold, a
\* fan-out that is in its loop can take its next step, it comes to its end,
\* and its producer is then free for its next message.
FanoutStep(p) == PutStep(p) \/ EndFanout(p)

C12_FanoutRunsToCompletion ==
  /\ [](\A p \in Producers : inflight[p] # NoBroadcast => ENABLED FanoutStep(p))
  /\ \A p \in Producers :
       (inflight[p] # NoBroadcast) ~> (inflight[p] = NoBroadcast)

C12_Witness ==
  \E b \in 1..Len(blog) : \E c, d \in SeqToSet(blog[b].reg) :
    /\ blog[b].done
    /\ c # d
    /\ sess[c] = "created" /\ Len(queue[c]) >= 2
    /\ Count(pushed[d], b) = 1

\* C13: a deregistration never breaks a fan-out (no exception escapes a
\* deregistration), and no fan-out puts its payload on a queue that has been
\* removed from the registry: every put lands on a queue that is registered
\* at that moment.  The registry does not change inside a fan-out at all.
C13_NoPutAfterRemoval ==
  /\ [](fault = "none")
  /\ [][/\ \A c \in Sessions : pushed'[c] # pushed[c] => Registered(c)
        /\ sse_clients' # sse_clients =>
             \A p \in Producers : inflight[p] = NoBroadcast]_vars

C13_Witness ==
  \E c \in Sessions : \E a, b \in 1..Len(blog) :
    /\ a < b /\ blog[a].done /\ blog[b].done
    /\ sess[c] = "done"
    /\ Count(pushed[c], a) = 1
    /\ blog[b].reg # << >>
    /\ Count(pushed[c], b) = 0

\* C14: registrations and deregistrations around a fan-out cause no skipped,
\* duplicated or failing delivery: at every step of its loop a fan-out has
\* put its payload exactly once on each queue it has passed and on no other,
\* and when it has ended every queue registered from its start to its end
\* holds the payload exactly once.  A session that is to register or to
\* deregister can do so whenever no task is in the middle of a step.
Passed(b, c) == Cardinality({k \in 1..(b.i - 1) : b.snap[k] = c})

C14_NoSkipNoDuplicate ==
  /\ fault = "none"
  /\ \A p \in Producers : \A c \in Sessions :
       inflight[p] # NoBroadcast =>
         Count(pushed[c], inflight[p].id) = Passed(inflight[p], c)
  /\ \A b \in 1..Len(blog) :
       blog[b].done =>
         \A c \in SeqToSet(blog[b].reg) \cap SeqToSet(blog[b].regEnd) :
           Count(pushed[c], b) = 1
  /\ (\A p \in Producers : inflight[p] = NoBroadcast) =>
       /\ \A c \in Sessions :
            (Serving /\ sess[c] \in Started) => ENABLED Close(c)
       /\ \A c \in Sessions :
            (lifespan = "running" /\ sess[c] = "none"
               /\ \A d \in Sessions : d < c => sess[d] # "none")
              => ENABLED stream_events(c)

C14_Witness ==
  \E a, b \in 1..Len(blog) :
    /\ a < b /\ blog[a].done /\ blog[b].done
    /\ Len(blog[a].reg) = 2
    /\ Len(blog[b].reg) = 1
    /\ \E p \in Producers : inflight[p] # NoBroadcast /\ inflight[p].i = 2

\* C15: what a session has yielded, followed by what is still in its queue,
\* is exactly what was pushed onto its queue, in push order: the yielded
\* sequence is a prefix of the pushed one, nothing twice, nothing skipped.
\* While the session stays connected and the server is running, the n-th
\* pushed payload is eventually yielded.
C15_YieldedIsPrefixOfPushed ==
  /\ [](\A c \in Sessions : yielded[c] \o queue[c] = Data(pushed[c]))
  /\ \A c \in Sessions : \A n \in 1..MaxLiveBroadcasts :
       (Len(pushed[c]) >= n)
         ~> (Len(yielded[c]) >= n \/ ~connected[c] \/ lifespan # "running")

C15_Witness ==
  \E c \in Sessions :
    /\ connected[c]
    /\ Len(yielded[c]) = 2
    /\ yielded[c][1] # yielded[c][2]
    /\ yielded[c] = Data(pushed[c])

\* C16: what the listener puts on a queue for an upstream message is the
\* exact string it received, and when the listener's fan-out has ended each
\* queue registered at its start holds that string once.
C16_UpstreamForwardedVerbatim ==
  \A b \in 1..Len(blog) :
    blog[b].src = "upstream" =>
      /\ blog[b].raw \in UpstreamData
      /\ \A c \in Sessions : \A k \in 1..Len(pushed[c]) :
           pushed[c][k].id = b => pushed[c][k].data = blog[b].raw
      /\ blog[b].done =>
           \A c \in SeqToSet(blog[b].reg) :
             \E k \in 1..Len(pushed[c]) :
               pushed[c][k] = [id |-> b, data |-> blog[b].raw]

C16_Witness ==
  \E b \in 1..Len(blog) :
    /\ blog[b].src = "upstream" /\ blog[b].done
    /\ Len(blog[b].reg) = 2
    /\ \A c \in Sessions : [id |-> b, data |-> "B"] \in SeqToSet(pushed[c])

C18_CommandIndependentOfRelay ==
  /\ \A t \in Tokens \cap Vocabulary :
       (/\ lifespan = "running"
        /\ \A p \in Producers : inflight[p] = NoBroadcast
        /\ Len(blog) < budget)
         => ENABLED send_webcontrol_command(t)
  /\ \A b \in 1..Len(blog) :
       (blog[b].src \in Vocabulary /\ blog[b].done) =>
         \A c \in SeqToSet(blog[b].reg) :
           \E k \in 1..Len(pushed[c]) :
             pushed[c][k] = [id |-> b, data |-> WebcontrolWire(blog[b].src)]

C18_Witness ==
  /\ relay = "FAILED" /\ subscription = "none"
  /\ lifespan = "running"
  /\ response.status_code = 202
  /\ blog[response.id].done
  /\ Len(blog[response.id].reg) = 2
  /\ \A c \in Sessions :
       [id |-> response.id, data |-> WebcontrolWire("pp")]
         \in SeqToSet(pushed[c])

\* C19: a session yields at most one payload after its transport has
\* disconnected; having yielded it, the session is at its probe or has
\* terminated, and a session that has terminated yields nothing more,
\* whatever is left in its queue.
C19_AtMostOneLateYield ==
  /\ [](\A c \in Sessions :
          /\ late[c] <= 1
          /\ late[c] = 1 => (~connected[c] /\ sess[c] \in {"probe", "done"}))
  /\ [][\A c \in Sessions :
          sess[c] \in {"done", "dropped"} => yielded'[c] = yielded[c]]_vars

C19_Witness ==
  \E c \in Sessions :
    /\ late[c] = 1
    /\ sess[c] = "done"
    /\ queue[c] # << >>
    /\ Len(yielded[c]) + Len(queue[c]) = Len(pushed[c])

\* C20: only upstream events of type "message" are relayed: the step that
\* consumes the subscribe confirmation starts no fan-out and puts nothing,
\* and every item ever put on a queue is either the data of an upstream
\* message or the serialized payload of a command of the vocabulary.
Payloads == UpstreamData \cup {WebcontrolWire(t) : t \in Vocabulary}

C20_OnlyMessagesAndCommands ==
  /\ [](\A c \in Sessions :
          /\ \A k \in 1..Len(pushed[c]) : pushed[c][k].data \in Payloads
          /\ SeqToSet(queue[c]) \cup SeqToSet(yielded[c]) \subseteq Payloads)
  /\ [][(subscription = "unconfirmed" /\ subscription' = "confirmed") =>
          UNCHANGED <<pushed, queue, inflight, blog>>]_vars

C20_Witness ==
  /\ subscription = "confirmed"
  /\ \E c \in Sessions :
       /\ Registered(c)
       /\ "A" \in SeqToSet(Data(pushed[c]))
       /\ WebcontrolWire("pp") \in SeqToSet(Data(pushed[c]))

====
